---------------------------- MODULE Spec2Model ----------------------------
(***************************************************************************)
(* Markov clustering (markov_clustering/mcl.py): the numeric pipeline      *)
(* add_self_loops, normalize, expand, inflate, prune, converged, iterate   *)
(* and the driver run_mcl.                                                 *)
(*                                                                         *)
(* Numbers.  A matrix entry x is held as the integer x * SCALE, that is in *)
(* units of 1e-6, and every product and quotient is rounded down to that   *)
(* unit (the code rounds to the nearest double instead).  The tolerances   *)
(* of the convergence test, rtol = 1e-5 and atol = 1e-8, are kept exactly: *)
(* the test is evaluated in units of 1e-11.  All intermediate values stay  *)
(* below 2^31.                                                             *)
(*                                                                         *)
(* Matrices.  A matrix is a record [fmt, val]: fmt is the storage form     *)
(* ("dense", or the sparse forms "csc" and "dok"), val the rows as a       *)
(* sequence of sequences.  A sparse matrix's missing entries are its 0s.   *)
(***************************************************************************)
EXTENDS Integers, Sequences, FiniteSets, TLC

\* ------------------------------------------------------------------------
\* Bounds of the model
\* ------------------------------------------------------------------------

\* Largest number of rows and of columns of an input matrix.
MaxDim == 2

\* Largest value of run_mcl's `iterations` argument.
MaxIter == 3

\* ------------------------------------------------------------------------
\* Fixed-point arithmetic
\* ------------------------------------------------------------------------

K == 10 ^ 3

\* One unit of the model is 1 / SCALE.
SCALE == K * K

\* rtol = 1e-5 = 1 / RtolDen and atol = 1e-8 = 1 / AtolDen.
RtolDen == 100000

AtolDen == 100000000

\* atol in units of 1 / (SCALE * RtolDen) = 1e-11.
AtolUnits == SCALE \div (AtolDen \div RtolDen)

Abs(x) == IF x < 0 THEN 0 - x ELSE x

\* floor(a * b / SCALE) for a, b >= 0, by halves of K so nothing overflows.
MulFix(a, b) ==
    LET a1 == a \div K
        a0 == a % K
        b1 == b \div K
        b0 == b % K
        mid == a1 * b0 + a0 * b1
        lo == a0 * b0
    IN  a1 * b1 + ((mid + (lo \div K)) \div K)

RECURSIVE DivDigits(_, _, _, _)
\* Long division: `n` more decimal digits of r / b appended to q.
DivDigits(q, r, b, n) ==
    IF n = 0 THEN q
    ELSE DivDigits(q * 10 + ((r * 10) \div b), (r * 10) % b, b, n - 1)

\* floor(a * SCALE / b) for a >= 0, b > 0.
DivFix(a, b) == DivDigits(a \div b, a % b, b, 6)

RECURSIVE SumSeq(_)
SumSeq(s) == IF s = <<>> THEN 0 ELSE Head(s) + SumSeq(Tail(s))

RECURSIVE PowFix(_, _)
\* x ** p for an integer p >= 1.
PowFix(x, p) == IF p = 1 THEN x ELSE MulFix(PowFix(x, p - 1), x)

\* ------------------------------------------------------------------------
\* Matrices
\* ------------------------------------------------------------------------

Rows(v) == Len(v)

Cols(v) == Len(v[1])

Mat(f, v) == [fmt |-> f, val |-> v]

\* scipy.sparse.isspmatrix
isspmatrix(m) == m.fmt # "dense"

\* The storage form of an operation's result: sparse results are csc.
OutFmt(m) == IF isspmatrix(m) THEN "csc" ELSE "dense"

\* An operation's outcome: err = "none" and the matrix m, or the error.
Ok(m) == [err |-> "none", m |-> m]

Fail(e, m) == [err |-> e, m |-> m]


\* ------------------------------------------------------------------------
\* The operations (mcl.py)
\* ------------------------------------------------------------------------

\* Lexicographic order on <<hi, lo>>, the value hi * RtolDen + lo.
LexLeq(x, y) == x[1] < y[1] \/ (x[1] = y[1] /\ x[2] <= y[2])

\* One entry of c = |a - b| - rtol * |b|, in units of 1e-11, as <<hi, lo>>
\* with 0 <= lo < RtolDen:  RtolDen * |a - b| - |b|.
CEntry(x, y) ==
    LET d == Abs(x - y)
        q == Abs(y) \div RtolDen
        r == Abs(y) % RtolDen
    IN  IF r = 0 THEN <<d - q, 0>> ELSE <<d - q - 1, RtolDen - r>>

\* c.max() of sparse_allclose: the largest entry of c.  (An entry c leaves
\* unstored is a 0 of c and takes part in the maximum.)
CMax(a, b) ==
    LET cs == {CEntry(a.val[r][c], b.val[r][c]) :
                  r \in 1..Rows(a.val), c \in 1..Cols(a.val)}
    IN  CHOOSE x \in cs : \A y \in cs : LexLeq(y, x)

\* sparse_allclose with the relative term left out: |a - b| <= atol.
sparse_allclose_NoRtol(a, b) ==
    \A r \in 1..Rows(a.val) : \A c \in 1..Cols(a.val) :
        LexLeq(<<Abs(a.val[r][c] - b.val[r][c]), 0>>, <<0, AtolUnits>>)

\* sparse_allclose with the sign of the relative term slipped:
\* |a - b| + rtol * |b| <= atol.
sparse_allclose_PlusRtol(a, b) ==
    \A r \in 1..Rows(a.val) : \A c \in 1..Cols(a.val) :
        LET d == Abs(a.val[r][c] - b.val[r][c])
            y == Abs(b.val[r][c])
        IN  LexLeq(<<d + (y \div RtolDen), y % RtolDen>>, <<0, AtolUnits>>)

\* sparse_allclose(a, b): c.max() <= atol.
sparse_allclose(a, b) == LexLeq(CMax(a, b), <<0, AtolUnits>>)

\* np.allclose(a, b): |a - b| <= atol + rtol * |b| at every entry
\* (both sides in units of 1e-11, divided by RtolDen).
allclose(a, b) ==
    \A r \in 1..Rows(a.val) : \A c \in 1..Cols(a.val) :
        Abs(a.val[r][c] - b.val[r][c])
            <= (AtolUnits + Abs(b.val[r][c])) \div RtolDen

\* normalize along the other axis (axis=1): each row divided by its norm.
normalize_Rows(matrix) ==
    LET v == matrix.val
        norms == [r \in 1..Rows(v) |->
                     SumSeq([c \in 1..Cols(v) |-> Abs(v[r][c])])]
        scale == [r \in 1..Rows(v) |->
                     IF norms[r] = 0 THEN SCALE ELSE norms[r]]
    IN  Mat(IF matrix.fmt # "dense" THEN "csc" ELSE "dense",
            [r \in 1..Rows(v) |->
                [c \in 1..Cols(v) |-> DivFix(v[r][c], scale[r])]])

\* sklearn.preprocessing.normalize(matrix, norm="l1", axis=0): each column
\* divided by its l1 norm, a norm of 0 replaced by 1.
normalize(matrix) ==
    LET v == matrix.val
        norms == [c \in 1..Cols(v) |->
                     SumSeq([r \in 1..Rows(v) |-> Abs(v[r][c])])]
        scale == [c \in 1..Cols(v) |->
                     IF norms[c] = 0 THEN SCALE ELSE norms[c]]
    IN  Mat(OutFmt(matrix),
            [r \in 1..Rows(v) |->
                [c \in 1..Cols(v) |-> DivFix(v[r][c], scale[c])]])

\* matrix.power(power) / np.power(matrix, power): the elementwise power.
ElemPower(matrix, power) ==
    LET v == matrix.val
    IN  Mat(matrix.fmt,
            [r \in 1..Rows(v) |->
                [c \in 1..Cols(v) |-> PowFix(v[r][c], power)]])

inflate(matrix, power) ==
    IF isspmatrix(matrix)
    THEN normalize(ElemPower(matrix, power))
    ELSE normalize(ElemPower(matrix, power))

MatMul(a, b) ==
    [r \in 1..Rows(a) |->
        [c \in 1..Cols(b) |->
            SumSeq([k \in 1..Cols(a) |-> MulFix(a[r][k], b[k][c])])]]

RECURSIVE MatPow(_, _)
\* The matrix product of `power` copies of v, power >= 1.
MatPow(v, power) ==
    IF power = 1 THEN v ELSE MatMul(MatPow(v, power - 1), v)

\* matrix ** power (sparse) / np.linalg.matrix_power (dense): both refuse a
\* matrix that is not square.
expand(matrix, power) ==
    IF Rows(matrix.val) # Cols(matrix.val)
    THEN Fail(IF isspmatrix(matrix) THEN "TypeError" ELSE "LinAlgError",
              matrix)
    ELSE Ok(Mat(OutFmt(matrix), MatPow(matrix.val, power)))

\* matrix.todok() hands back the matrix itself when it is a dok matrix
\* already, and a new matrix otherwise; matrix.copy() is always new.
SameObject(matrix) == matrix.fmt = "dok"

SetDiagonal(v, loop_value) ==
    [r \in 1..Rows(v) |->
        [c \in 1..Cols(v) |-> IF r = c THEN loop_value ELSE v[r][c]]]

\* add_self_loops without its assertion.
add_self_loops_NoAssert(matrix, loop_value) ==
    LET new_val == SetDiagonal(matrix.val, loop_value)
    IN  [err |-> "none",
         m   |-> Mat(OutFmt(matrix), new_val),
         arg |-> IF SameObject(matrix)
                 THEN Mat(matrix.fmt, new_val)
                 ELSE matrix]

\* add_self_loops: err and the returned matrix m, and arg, the caller's
\* matrix object as the call leaves it.
add_self_loops(matrix, loop_value) ==
    IF Rows(matrix.val) # Cols(matrix.val)
    THEN [err |-> "AssertionError", m |-> matrix, arg |-> matrix]
    ELSE LET new_val == SetDiagonal(matrix.val, loop_value)
         IN  [err |-> "none",
              m   |-> Mat(OutFmt(matrix), new_val),
              arg |-> IF SameObject(matrix)
                      THEN Mat(matrix.fmt, new_val)
                      ELSE matrix]

\* prune.  Sparse: scipy refuses `matrix >= 0` (NotImplementedError,
\* ">= and <= don't work with 0"); otherwise the entries >= threshold are
\* copied into an empty dok matrix.  Dense: the entries < threshold of a
\* copy are set to 0.
prune(matrix, threshold) ==
    LET v == matrix.val
    IN  IF isspmatrix(matrix)
        THEN IF threshold = 0
             THEN Fail("NotImplementedError", matrix)
             ELSE Ok(Mat("csc",
                     [r \in 1..Rows(v) |->
                         [c \in 1..Cols(v) |->
                             IF v[r][c] >= threshold THEN v[r][c] ELSE 0]]))
        ELSE Ok(Mat("dense",
                [r \in 1..Rows(v) |->
                    [c \in 1..Cols(v) |->
                        IF v[r][c] < threshold THEN 0 ELSE v[r][c]]]))

converged(matrix1, matrix2) ==
    IF isspmatrix(matrix1) \/ isspmatrix(matrix2)
    THEN sparse_allclose(matrix1, matrix2)
    ELSE allclose(matrix1, matrix2)

\* iterate pruning whenever the threshold is >= 0.
Prunes_AtZeroToo(pruning) == pruning >= 0

\* Whether iterate prunes.
Prunes(pruning) == pruning > 0

\* iterate(matrix, expansion, inflation, pruning) as one call.
iterate(matrix, expansion, inflation, pruning) ==
    LET e == expand(matrix, expansion)
    IN  IF e.err # "none" THEN e
        ELSE LET f == inflate(e.m, inflation)
             IN  IF Prunes(pruning) THEN prune(f, pruning) ELSE Ok(f)

\* ------------------------------------------------------------------------
\* State
\* ------------------------------------------------------------------------

VARIABLES
    pc,        \* where the caller is: in run_mcl ("start", "normalize",
               \* "loop", "expand", "power", "inflate_norm", "prune",
               \* "check", "done", "error", "again") or around a single
               \* call of one operation ("call", "returned")
    args,      \* run_mcl's arguments besides the matrix
    caller,    \* the matrix object the caller passed, as it is now
    original,  \* the entries that object held when the call began
    matrix,    \* run_mcl's local `matrix`
    last_mat,  \* run_mcl's local `last_mat`
    i,         \* run_mcl's loop variable
    it,        \* the next value range(iterations) yields
    trace,     \* the operations run_mcl has applied, in order
    hist,      \* per finished iterate call: its input and its output
    printed,   \* the numbers N of "Converged after N iterations" printed
    extra,     \* the outcome of one more iterate call after run_mcl
    error,     \* the exception that ended run_mcl, or "none"
    call,      \* a single call of one operation: its name and arguments
    ret        \* its outcome

vars == <<pc, args, caller, original, matrix, last_mat, i, it, trace, hist,
          printed, extra, error, call, ret>>

runVars == <<args, caller, original, matrix, last_mat, i, it, trace, hist,
             printed, extra, error>>

\* ------------------------------------------------------------------------
\* Inputs
\* ------------------------------------------------------------------------

AllVals(nr, nc, V) == [1..nr -> [1..nc -> V]]

\* Every 0/1 adjacency matrix of every shape up to MaxDim x MaxDim.
AdjacencyInputs ==
    UNION {AllVals(nr, nc, {0, SCALE}) : nr \in 1..MaxDim, nc \in 1..MaxDim}

\* Weighted similarity matrices: two nodes with weights 1.000012 and
\* 0.999988 between them.
WeightedInputs ==
    { << <<SCALE, SCALE + 12>>, <<SCALE - 12, SCALE>> >> }

Formats == {"dense", "csc", "dok"}

CallerInputs ==
    {Mat(f, v) : f \in Formats, v \in AdjacencyInputs \cup WeightedInputs}

Expansions == {2}

Inflations == {2}

LoopValues == {0, SCALE}

\* 0.001, run_mcl's default pruning threshold.
DefaultPruning == SCALE \div 1000

Prunings == {0, DefaultPruning}

RunArgs ==
    [expansion : Expansions, inflation : Inflations, loop_value : LoopValues,
     iterations : 0..MaxIter, pruning : Prunings]

DefaultArgs ==
    [expansion |-> 2, inflation |-> 2, loop_value |-> SCALE,
     iterations |-> 0, pruning |-> DefaultPruning]

NoMatrix == Mat("dense", << <<0>> >>)

NoExtra == [done |-> FALSE, err |-> "none", m |-> NoMatrix]

NoCall == [op |-> "run_mcl", a |-> NoMatrix, b |-> NoMatrix, p |-> 0]

NoRet == [err |-> "none", m |-> NoMatrix, flag |-> FALSE, arg |-> NoMatrix]

\* Single calls on the caller's inputs: p is the power, the threshold or
\* the loop value.
DirectCalls ==
    {[op |-> o, a |-> m, b |-> m, p |-> 0] :
        o \in {"normalize", "converged"}, m \in CallerInputs}
    \cup {[op |-> o, a |-> m, b |-> m, p |-> 2] :
        o \in {"expand", "inflate"}, m \in CallerInputs}
    \cup {[op |-> "add_self_loops", a |-> m, b |-> m, p |-> l] :
        m \in CallerInputs, l \in LoopValues}
    \cup {[op |-> "prune", a |-> m, b |-> m, p |-> t] :
        m \in CallerInputs, t \in Prunings \cup {SCALE}}

\* ------------------------------------------------------------------------
\* run_mcl, step by step
\* ------------------------------------------------------------------------

RunInit ==
    /\ pc = "start"
    /\ args \in RunArgs
    /\ caller \in CallerInputs
    /\ original = caller
    /\ matrix = caller
    /\ last_mat = NoMatrix
    /\ i = 0
    /\ it = 0
    /\ trace = <<>>
    /\ hist = <<>>
    /\ printed = <<>>
    /\ extra = NoExtra
    /\ error = "none"
    /\ call = NoCall
    /\ ret = NoRet

\* matrix = add_self_loops(matrix, loop_value)
AddSelfLoopsStep ==
    /\ pc = "start"
    /\ LET r == add_self_loops(matrix, args.loop_value)
       IN  /\ caller' = r.arg
           /\ error' = r.err
           /\ IF r.err = "none"
              THEN /\ matrix' = r.m
                   /\ trace' = Append(trace, "add_self_loops")
                   /\ pc' = "normalize"
              ELSE /\ UNCHANGED <<matrix, trace>>
                   /\ pc' = "error"
    /\ UNCHANGED <<args, original, last_mat, i, it, hist, printed, extra,
                   call, ret>>

\* matrix = normalize(matrix)
NormalizeStep ==
    /\ pc = "normalize"
    /\ matrix' = normalize(matrix)
    /\ trace' = Append(trace, "normalize")
    /\ pc' = "loop"
    /\ UNCHANGED <<args, caller, original, last_mat, i, it, hist, printed,
                   extra, error, call, ret>>

\* The loop taking one value more than range(iterations) yields.
LoopNext_OneMore ==
    /\ pc = "loop"
    /\ it <= args.iterations
    /\ i' = it
    /\ it' = it + 1
    /\ last_mat' = matrix
    /\ pc' = "expand"
    /\ UNCHANGED <<args, caller, original, matrix, trace, hist, printed,
                   extra, error, call, ret>>

\* for i in range(iterations): last_mat = matrix.copy()
LoopNext ==
    /\ pc = "loop"
    /\ it < args.iterations
    /\ i' = it
    /\ it' = it + 1
    /\ last_mat' = matrix
    /\ pc' = "expand"
    /\ UNCHANGED <<args, caller, original, matrix, trace, hist, printed,
                   extra, error, call, ret>>

\* range(iterations) is exhausted: return matrix
LoopExhausted ==
    /\ pc = "loop"
    /\ it >= args.iterations
    /\ pc' = "done"
    /\ UNCHANGED runVars
    /\ UNCHANGED <<call, ret>>

\* iterate: matrix = expand(matrix, expansion)
ExpandStep ==
    /\ pc = "expand"
    /\ LET r == expand(matrix, args.expansion)
       IN  /\ error' = r.err
           /\ IF r.err = "none"
              THEN /\ matrix' = r.m
                   /\ trace' = Append(trace, "expand")
                   /\ pc' = "power"
              ELSE /\ UNCHANGED <<matrix, trace>>
                   /\ pc' = "error"
    /\ UNCHANGED <<args, caller, original, last_mat, i, it, hist, printed,
                   extra, call, ret>>

\* iterate: inflate, its elementwise power
PowerStep ==
    /\ pc = "power"
    /\ matrix' = ElemPower(matrix, args.inflation)
    /\ trace' = Append(trace, "power")
    /\ pc' = "inflate_norm"
    /\ UNCHANGED <<args, caller, original, last_mat, i, it, hist, printed,
                   extra, error, call, ret>>

\* iterate: inflate, its normalize
InflateNormalizeStep ==
    /\ pc = "inflate_norm"
    /\ matrix' = normalize(matrix)
    /\ trace' = Append(trace, "normalize")
    /\ pc' = "prune"
    /\ UNCHANGED <<args, caller, original, last_mat, i, it, hist, printed,
                   extra, error, call, ret>>

\* iterate: if pruning > 0: matrix = prune(matrix, pruning)
PruneStep ==
    /\ pc = "prune"
    /\ Prunes(args.pruning)
    /\ LET r == prune(matrix, args.pruning)
       IN  /\ error' = r.err
           /\ IF r.err = "none"
              THEN /\ matrix' = r.m
                   /\ trace' = Append(trace, "prune")
                   /\ pc' = "check"
              ELSE /\ UNCHANGED <<matrix, trace>>
                   /\ pc' = "error"
    /\ UNCHANGED <<args, caller, original, last_mat, i, it, hist, printed,
                   extra, call, ret>>

\* iterate: pruning is not > 0
SkipPrune ==
    /\ pc = "prune"
    /\ ~Prunes(args.pruning)
    /\ pc' = "check"
    /\ UNCHANGED runVars
    /\ UNCHANGED <<call, ret>>

\* The convergence test without its break.
ConvergedStep_NoBreak ==
    /\ pc = "check"
    /\ hist' = Append(hist, [prev |-> last_mat, cur |-> matrix])
    /\ trace' = Append(trace, "converged")
    /\ IF converged(matrix, last_mat)
       THEN printed' = Append(printed, i)
       ELSE UNCHANGED printed
    /\ pc' = "loop"
    /\ UNCHANGED <<args, caller, original, matrix, last_mat, i, it, extra,
                   error, call, ret>>

\* if converged(matrix, last_mat): print(... .format(i)); break
ConvergedStep ==
    /\ pc = "check"
    /\ hist' = Append(hist, [prev |-> last_mat, cur |-> matrix])
    /\ trace' = Append(trace, "converged")
    /\ IF converged(matrix, last_mat)
       THEN /\ printed' = Append(printed, i)
            /\ pc' = "done"
       ELSE /\ UNCHANGED printed
            /\ pc' = "loop"
    /\ UNCHANGED <<args, caller, original, matrix, last_mat, i, it, extra,
                   error, call, ret>>

\* The caller applies iterate once more to the matrix run_mcl returned.
IterateAgain ==
    /\ pc = "done"
    /\ LET r == iterate(matrix, args.expansion, args.inflation, args.pruning)
       IN  extra' = [done |-> TRUE, err |-> r.err, m |-> r.m]
    /\ pc' = "again"
    /\ UNCHANGED <<args, caller, original, matrix, last_mat, i, it, trace,
                   hist, printed, error, call, ret>>

RunNext ==
    \/ AddSelfLoopsStep
    \/ NormalizeStep
    \/ LoopNext
    \/ LoopExhausted
    \/ ExpandStep
    \/ PowerStep
    \/ InflateNormalizeStep
    \/ PruneStep
    \/ SkipPrune
    \/ ConvergedStep
    \/ IterateAgain

\* ------------------------------------------------------------------------
\* Single calls of the operations
\* ------------------------------------------------------------------------

CallInit(calls) ==
    /\ pc = "call"
    /\ \E c \in calls : call = c
    /\ ret = NoRet
    /\ args = DefaultArgs
    /\ caller = call.a
    /\ original = call.a
    /\ matrix = NoMatrix
    /\ last_mat = NoMatrix
    /\ i = 0
    /\ it = 0
    /\ trace = <<>>
    /\ hist = <<>>
    /\ printed = <<>>
    /\ extra = NoExtra
    /\ error = "none"

Returns(r) ==
    /\ ret' = r
    /\ pc' = "returned"
    /\ UNCHANGED <<args, original, matrix, last_mat, i, it, trace, hist,
                   printed, extra, error, call>>

DoConverged ==
    /\ pc = "call" /\ call.op = "converged"
    /\ Returns([err |-> "none", m |-> NoMatrix,
                flag |-> converged(call.a, call.b), arg |-> caller])
    /\ UNCHANGED caller

DoNormalize ==
    /\ pc = "call" /\ call.op = "normalize"
    /\ Returns([err |-> "none", m |-> normalize(call.a), flag |-> FALSE,
                arg |-> caller])
    /\ UNCHANGED caller

DoInflate ==
    /\ pc = "call" /\ call.op = "inflate"
    /\ Returns([err |-> "none", m |-> inflate(call.a, call.p),
                flag |-> FALSE, arg |-> caller])
    /\ UNCHANGED caller

DoExpand ==
    /\ pc = "call" /\ call.op = "expand"
    /\ LET r == expand(call.a, call.p)
       IN  Returns([err |-> r.err, m |-> r.m, flag |-> FALSE, arg |-> caller])
    /\ UNCHANGED caller

DoPrune ==
    /\ pc = "call" /\ call.op = "prune"
    /\ LET r == prune(call.a, call.p)
       IN  Returns([err |-> r.err, m |-> r.m, flag |-> FALSE, arg |-> caller])
    /\ UNCHANGED caller

DoAddSelfLoops ==
    /\ pc = "call" /\ call.op = "add_self_loops"
    /\ LET r == add_self_loops(call.a, call.p)
       IN  /\ Returns([err |-> r.err, m |-> r.m, flag |-> FALSE,
                       arg |-> r.arg])
           /\ caller' = r.arg

OpNext ==
    \/ DoConverged
    \/ DoNormalize
    \/ DoInflate
    \/ DoExpand
    \/ DoPrune
    \/ DoAddSelfLoops

\* ------------------------------------------------------------------------
\* Specifications
\* ------------------------------------------------------------------------

\* A caller runs run_mcl, or calls one operation, on one of CallerInputs.
Init == RunInit \/ CallInit(DirectCalls)

Next == RunNext \/ OpNext

Spec == Init /\ [][Next]_vars

\* ------------------------------------------------------------------------
\* The operations as pure functions, on wider numbers
\* ------------------------------------------------------------------------

\* Entries 0 and 0.5, shifted by 0, 5e-6 or 6e-6: at 0.5 the tolerance of
\* the convergence test is 1e-8 + 0.5e-5 = 5.01e-6.
BaseVals == {0, SCALE \div 2}

Shifts == {0, 5, 6}

\* v with d0 added to every entry and d1 more to the entry at <<pr, pcol>>.
Shifted(v, pr, pcol, d0, d1) ==
    [r \in 1..Rows(v) |->
        [c \in 1..Cols(v) |->
            v[r][c] + d0 + (IF r = pr /\ c = pcol THEN d1 ELSE 0)]]

BaseInputs ==
    UNION {AllVals(nr, nc, BaseVals) : nr \in 1..MaxDim, nc \in 1..MaxDim}

\* The second operand of converged, per first operand.
Neighbours(v) ==
    {Shifted(v, pr, pcol, d0, d1) :
        pr \in 1..Rows(v), pcol \in 1..Cols(v), d0 \in {0, 5}, d1 \in Shifts}

OpFormats == {"dense", "csc"}

Thresholds == {0, 6, (SCALE \div 2) + 5}

ConvergedCalls(v, w) ==
    UNION {
        {[op |-> "converged", a |-> Mat(fa, v), b |-> Mat(fb, w), p |-> 0],
         [op |-> "converged", a |-> Mat(fa, w), b |-> Mat(fb, v), p |-> 0]} :
        fa \in OpFormats, fb \in OpFormats}

UnaryCalls(m) ==
    {[op |-> "normalize", a |-> m, b |-> m, p |-> 0],
     [op |-> "expand", a |-> m, b |-> m, p |-> 2],
     [op |-> "inflate", a |-> m, b |-> m, p |-> 2],
     [op |-> "add_self_loops", a |-> m, b |-> m, p |-> SCALE]}
    \cup {[op |-> "prune", a |-> m, b |-> m, p |-> t] : t \in Thresholds}

\* The calls built on the base matrix v and one of its neighbours w.
OpsCalls(v, w) ==
    ConvergedCalls(v, w) \cup UNION {UnaryCalls(Mat(f, w)) : f \in OpFormats}

\* A caller calls one operation on one of OpsCalls.
OpsInit ==
    \E v \in BaseInputs : \E w \in Neighbours(v) : CallInit(OpsCalls(v, w))

OpsSpec == OpsInit /\ [][OpNext]_vars

\* ------------------------------------------------------------------------
\* Vocabulary of the properties
\* ------------------------------------------------------------------------

IsRun == call.op = "run_mcl"

Square(m) == Rows(m.val) = Cols(m.val)

SameShape(m, n) ==
    Rows(m.val) = Rows(n.val) /\ Cols(m.val) = Cols(n.val)

Returned == pc \in {"done", "again"}

\* The number of iterate steps run_mcl has applied.
IterateCalls == Cardinality({k \in 1..Len(trace) : trace[k] = "expand"})

\* |a - b| <= atol + rtol * |b| at every entry, in units of 1e-11 (the
\* first conjunct only keeps the product small).
WithinTol(a, b) ==
    \A r \in 1..Rows(a.val) : \A c \in 1..Cols(a.val) :
        LET d == Abs(a.val[r][c] - b.val[r][c])
            y == Abs(b.val[r][c])
        IN  /\ d <= (y \div RtolDen) + 1
            /\ RtolDen * d <= AtolUnits + y

\* The matrix run_mcl iterates on first.
Seed == normalize(add_self_loops(original, args.loop_value).m)

RECURSIVE IterN(_, _)
\* n iterate calls applied to m with run_mcl's arguments.
IterN(m, n) ==
    IF n = 0 THEN m
    ELSE iterate(IterN(m, n - 1), args.expansion, args.inflation,
                 args.pruning).m

\* No finished iterate step's output converged with its input.
NoneConverged ==
    \A k \in 1..Len(hist) : ~WithinTol(hist[k].cur, hist[k].prev)

LastConverged ==
    Len(hist) > 0 /\ WithinTol(hist[Len(hist)].cur, hist[Len(hist)].prev)

\* run_mcl has just made its convergence test.
JustTested == pc \in {"loop", "done"} /\ Len(hist) > 0

IsPrefix(s, t) == Len(s) <= Len(t) /\ \A k \in 1..Len(s) : s[k] = t[k]

\* ------------------------------------------------------------------------
\* C1
\* ------------------------------------------------------------------------

\* A number that bounds the steps run_mcl has left.
Variant ==
    LET left == 7 * (args.iterations - it)
    IN  CASE pc = "start" -> left + 19
          [] pc = "normalize" -> left + 18
          [] pc = "loop" -> left + 10
          [] pc = "expand" -> left + 16
          [] pc = "power" -> left + 15
          [] pc = "inflate_norm" -> left + 14
          [] pc = "prune" -> left + 13
          [] pc = "check" -> left + 12
          [] pc = "done" -> 1
          [] OTHER -> 0

\* run_mcl has ended, or can take a step: at the loop head and at iterate's
\* `if pruning > 0` one of the two branches is enabled; the other steps
\* have no condition but the position.
CanStep ==
    \/ pc \in {"done", "again", "error"}
    \/ pc \in {"start", "normalize", "expand", "power", "inflate_norm",
               "check"}
    \/ /\ pc \in {"loop", "prune"}
       /\ ENABLED (LoopNext \/ LoopExhausted \/ PruneStep \/ SkipPrune)

C1_Safe ==
    /\ IterateCalls <= args.iterations
    /\ Square(original) => error = "none" /\ pc # "error"
    /\ Variant >= 0
    /\ CanStep
    /\ (Returned /\ NoneConverged) =>
           /\ IterateCalls = args.iterations
           /\ matrix = IterN(Seed, args.iterations)

\* C1: run_mcl on a square non-negative matrix with cap N always reaches
\* its end (each step lowers a bounded count of the steps left, and a step
\* can be taken until run_mcl has returned), having applied iterate at
\* most N times and raising no error; when no iterate output converged
\* with its predecessor it returns the output of the N-th iterate step.
C1_RunMclTerminates ==
    /\ [](IsRun => C1_Safe)
    /\ [][IsRun => Variant' < Variant]_vars

C1_Witness ==
    /\ pc = "done"
    /\ args.iterations >= 2
    /\ IterateCalls = args.iterations
    /\ NoneConverged

\* ------------------------------------------------------------------------
\* C2
\* ------------------------------------------------------------------------

\* C2: the loop stops at the first iteration whose output converged with
\* the matrix held just before that iterate step, applies no further
\* iterate step and returns exactly that output; while the output has not
\* converged and the cap is not reached the loop goes on.
C2_StopsAtFirstConvergence ==
    IsRun =>
       /\ \A k \in 1..(Len(hist) - 1) :
             ~WithinTol(hist[k].cur, hist[k].prev)
       /\ JustTested =>
             hist[Len(hist)].prev =
                (IF Len(hist) = 1 THEN Seed ELSE hist[Len(hist) - 1].cur)
       /\ (LastConverged /\ pc # "check") =>
             /\ Returned
             /\ matrix = hist[Len(hist)].cur
             /\ IterateCalls = Len(hist)
       /\ Returned => (LastConverged \/ IterateCalls = args.iterations)

C2_Witness ==
    /\ pc = "done"
    /\ Len(hist) >= 2
    /\ LastConverged
    /\ Len(hist) < args.iterations

\* ------------------------------------------------------------------------
\* C3
\* ------------------------------------------------------------------------

\* C3: converged(a, b) is true exactly when every entry pair satisfies
\* |a - b| <= atol + rtol * |b|, whichever of a and b is dense or sparse;
\* so converged(M, M) is true.
C3_ConvergedIsWithinTol ==
    (pc = "returned" /\ call.op = "converged") =>
        /\ ret.err = "none"
        /\ ret.flag = WithinTol(call.a, call.b)
        /\ call.a.val = call.b.val => ret.flag

\* A dense and a sparse operand that differ and are within tolerance.
C3_Witness ==
    /\ pc = "returned" /\ call.op = "converged"
    /\ isspmatrix(call.a) /\ ~isspmatrix(call.b)
    /\ call.a.val # call.b.val
    /\ ret.flag

\* ------------------------------------------------------------------------
\* C4
\* ------------------------------------------------------------------------

PrunedEntries(m, t) ==
    [r \in 1..Rows(m.val) |->
        [c \in 1..Cols(m.val) |->
            IF m.val[r][c] < t THEN 0 ELSE m.val[r][c]]]

\* C4: prune(M, t), t >= 0, dense or sparse, returns a matrix of M's shape
\* with 0 where M's entry is < t and M's entry elsewhere; prune(M, 0) is M.
C4_PruneKeepsAtLeastThreshold ==
    (pc = "returned" /\ call.op = "prune") =>
        /\ ret.err = "none"
        /\ SameShape(ret.m, call.a)
        /\ ret.m.val = PrunedEntries(call.a, call.p)
        /\ call.p = 0 => ret.m.val = call.a.val

\* ------------------------------------------------------------------------
\* C5
\* ------------------------------------------------------------------------

ColSum(v, c) == SumSeq([r \in 1..Rows(v) |-> v[r][c]])

\* C5: normalize(M), M square and non-negative, succeeds, keeps M's shape,
\* divides each column of non-zero sum by that sum, so that the column sums
\* to 1 (up to one unit of rounding per entry), and leaves a zero column
\* zero.
C5_NormalizeColumns ==
    (pc = "returned" /\ call.op = "normalize" /\ Square(call.a)) =>
        /\ ret.err = "none"
        /\ SameShape(ret.m, call.a)
        /\ \A c \in 1..Cols(call.a.val) :
              LET total == ColSum(call.a.val, c)
                  out == ColSum(ret.m.val, c)
              IN  IF total = 0
                  THEN \A r \in 1..Rows(call.a.val) : ret.m.val[r][c] = 0
                  ELSE /\ \A r \in 1..Rows(call.a.val) :
                             ret.m.val[r][c] = DivFix(call.a.val[r][c], total)
                       /\ out <= SCALE
                       /\ out > SCALE - Rows(call.a.val)

\* A square matrix with a zero column and a column that is not yet
\* normalized.
C5_Witness ==
    /\ pc = "returned" /\ call.op = "normalize"
    /\ Rows(call.a.val) = 2 /\ Cols(call.a.val) = 2
    /\ ColSum(call.a.val, 1) = 0
    /\ ColSum(call.a.val, 2) > SCALE
    /\ ret.m.val[1][2] > 0 /\ ret.m.val[2][2] > 0

\* ------------------------------------------------------------------------
\* C6
\* ------------------------------------------------------------------------

PipelineOps == {"add_self_loops", "normalize", "expand", "inflate", "prune"}

\* C6 as claimed: every operation of the pipeline fails on a matrix that
\* is not square, and run_mcl fails on it before any iterate step.
C6_EveryOperationRejectsNonSquare ==
    /\ (pc = "returned" /\ call.op \in PipelineOps /\ ~Square(call.a)) =>
           ret.err # "none"
    /\ (IsRun /\ ~Square(original) /\ pc # "start") =>
           pc = "error" /\ IterateCalls = 0

\* C6 amended: add_self_loops and expand fail on a matrix that is not
\* square, and so run_mcl fails on it in add_self_loops, before any other
\* step; normalize and inflate return a matrix of the input's shape, and so
\* does prune whenever it returns.
C6_SquarenessCheckedBySelfLoopsAndExpand ==
    /\ (pc = "returned" /\ ~Square(call.a)) =>
           /\ call.op = "add_self_loops" =>
                  ret.err = "AssertionError" /\ caller = original
           /\ call.op = "expand" => ret.err \in {"TypeError", "LinAlgError"}
           /\ call.op \in {"normalize", "inflate"} =>
                  ret.err = "none" /\ SameShape(ret.m, call.a)
           /\ (call.op = "prune" /\ ret.err = "none") =>
                  SameShape(ret.m, call.a)
    /\ (IsRun /\ ~Square(original) /\ pc # "start") =>
           /\ pc = "error"
           /\ error = "AssertionError"
           /\ trace = <<>>

C6_Witness ==
    /\ pc = "returned" /\ call.op = "normalize"
    /\ ~Square(call.a)
    /\ ret.err = "none"
    /\ ColSum(ret.m.val, 1) = SCALE

\* ------------------------------------------------------------------------
\* C7
\* ------------------------------------------------------------------------

IterTrace ==
    <<"expand", "power", "normalize">>
        \o (IF args.pruning > 0 THEN <<"prune">> ELSE <<>>)
        \o <<"converged">>

RECURSIVE Repeat(_, _)
Repeat(s, n) == IF n = 0 THEN <<>> ELSE s \o Repeat(s, n - 1)

ExpectedTrace ==
    <<"add_self_loops", "normalize">> \o Repeat(IterTrace, args.iterations)

\* C7: run_mcl applies add_self_loops, then normalize, once; then per
\* iteration expand, the elementwise power, normalize, prune exactly when
\* the threshold is > 0, and only then the convergence test.  The matrix
\* tested is prune's output or, with threshold 0, inflate's output.
C7_StepsInOrder ==
    IsRun =>
       /\ IsPrefix(trace, ExpectedTrace)
       /\ JustTested =>
             LET h == hist[Len(hist)]
                 e == expand(h.prev, args.expansion).m
                 f == inflate(e, args.inflation)
             IN  /\ matrix = h.cur
                 /\ h.cur = (IF args.pruning > 0
                             THEN prune(f, args.pruning).m ELSE f)

C7_Witness ==
    /\ pc = "done"
    /\ args.pruning = 0
    /\ Len(hist) >= 2
    /\ isspmatrix(matrix)

\* ------------------------------------------------------------------------
\* C8
\* ------------------------------------------------------------------------

\* C8 as claimed: one more iterate on the matrix M that run_mcl stopped on
\* because it had converged yields M' with converged(M', M).
C8_IterateAfterConvergenceConverged ==
    (pc = "again" /\ printed # <<>>) =>
        extra.err = "none" /\ converged(extra.m, matrix)

\* C8 amended: when the matrix M that run_mcl stopped on equals the matrix
\* before the last iterate step entry for entry, one more iterate yields M
\* again, and converged(M', M) holds.
C8_IterateAtFixedPoint ==
    (pc = "again" /\ Len(hist) > 0
        /\ hist[Len(hist)].prev.val = hist[Len(hist)].cur.val) =>
        /\ extra.err = "none"
        /\ extra.m.val = matrix.val
        /\ converged(extra.m, matrix)

C8_Witness ==
    /\ pc = "again"
    /\ printed # <<>>
    /\ Len(hist) >= 2
    /\ hist[Len(hist)].prev.val = hist[Len(hist)].cur.val
    /\ hist[1].prev.val # hist[1].cur.val

\* ------------------------------------------------------------------------
\* C9
\* ------------------------------------------------------------------------

\* C9: the N of "Converged after N iterations" is the number of iterate
\* steps run_mcl performed, and is at most `iterations`.
C9_ReportedCountIsIterateCalls ==
    (IsRun /\ printed # <<>>) =>
        /\ Len(printed) = 1
        /\ printed[1] = IterateCalls
        /\ printed[1] <= args.iterations

\* ------------------------------------------------------------------------
\* C10
\* ------------------------------------------------------------------------

\* C10: run_mcl and add_self_loops leave the caller's matrix as it was.
C10_CallerMatrixUnchanged ==
    (IsRun \/ call.op = "add_self_loops") => caller = original

=============================================================================
